---- MODULE Spec2Model ----
(***************************************************************************)
(* A model of @futuretense/stellar-option: Option.createTransactions and   *)
(* the three transactions it returns (setup, exercise, refund), together   *)
(* with the part of the Stellar ledger those transactions are written      *)
(* against: sequence numbers, time bounds, pre-authorised transaction      *)
(* signers, master weight and the six operations the helpers append.       *)
(*                                                                         *)
(* Times are seconds.  A sequence number is kept as the pair               *)
(* [hi |-> ledger, lo |-> low 32 bits], which is the 64-bit number         *)
(* hi * 2^32 + lo: the numbers themselves do not fit the model checker's   *)
(* integers.  Native balances of the escrow account are stroops; asset     *)
(* amounts are whole units.  The hash of a transaction is the transaction  *)
(* itself (its content without signatures): a collision-free hash.         *)
(***************************************************************************)
EXTENDS Integers, Sequences, FiniteSets, TLC

VARIABLES
    opt,        \* the Option: the constructor's fields (never assigned again)
    build,      \* per invocation of createTransactions: where it stands, what it read
    out,        \* per invocation: the OptionTransactions returned (or none)
    ledgerSeq,  \* height of the latest closed ledger
    closeTime,  \* close time of the latest closed ledger
    led,        \* ledger entries: escrow accounts, seller's sequence, balances
    hist        \* per invocation and transaction: how the ledger took it, and when

vars == <<opt, build, out, ledgerSeq, closeTime, led, hist>>

----------------------------------------------------------------------------
(* Bounds of the model and constants of the program *)

StartLedger == 100
StartTime == 1000
MaxClock == 1045
MaxLag == 1
BeginWindow == 5

BaseReserveStroops == 5000000
DefaultFee == 1000

Builds == {1, 2}
Timeouts == {10, 20}
Expiries == {StartTime + 10, StartTime + 30}
Delays == {0, 10}
LedgerCloseSeconds == {5, 10}

Buyer == "buyer"
Seller == "seller"
EscrowIds == {"escrow1", "escrow2"}
(* a variant in which every call draws the same key pair *)
KeypairRandomSame(b) == "escrow1"
KeypairRandom(b) == IF b = 1 THEN "escrow1" ELSE "escrow2"

Native == "XLM"
NonNative == "TEST"
IsNative(asset) == asset = Native

Kinds == {"setup", "exercise", "refund"}

----------------------------------------------------------------------------
(* Sequence numbers *)

ledgerToSequenceNumber(ledger) == [hi |-> ledger, lo |-> 0]

SeqLess(a, b) == a.hi < b.hi \/ (a.hi = b.hi /\ a.lo < b.lo)

SeqNext(s) == [hi |-> s.hi, lo |-> s.lo + 1]

----------------------------------------------------------------------------
(* helpers.ts: each helper gives the operations it appends to the builder *)

(* an optional argument left out *)
Undefined == [undefined |-> TRUE]

createAccount(source, destination, balance, sequenceNumber) ==
    <<[type |-> "createAccount", source |-> source, destination |-> destination,
       startingBalance |-> balance]>>
    \o (IF sequenceNumber # Undefined
        THEN <<[type |-> "bumpSequence", source |-> destination,
                bumpTo |-> sequenceNumber]>>
        ELSE << >>)

addTrustline(source, amount) ==
    IF ~IsNative(amount.asset)
    THEN <<[type |-> "changeTrust", source |-> source, asset |-> amount.asset,
            limit |-> amount.amount]>>
    ELSE << >>

(* a variant that declares trust again instead of removing it *)
removeTrustlineKeepsLimit(source, amount) ==
    IF ~IsNative(amount.asset)
    THEN <<[type |-> "changeTrust", source |-> source, asset |-> amount.asset,
            limit |-> amount.amount]>>
    ELSE << >>

removeTrustline(source, amount) ==
    IF ~IsNative(amount.asset)
    THEN <<[type |-> "changeTrust", source |-> source, asset |-> amount.asset,
            limit |-> 0]>>
    ELSE << >>

sendPayment(from, to, amount) ==
    <<[type |-> "payment", source |-> from, destination |-> to,
       asset |-> amount.asset, amount |-> amount.amount]>>

mergeAccount(from, to) ==
    <<[type |-> "accountMerge", source |-> from, destination |-> to]>>

(* hash() of a built transaction: its content, signatures excluded *)
TxHash(tx) == tx

(* a variant that leaves the master key its weight *)
lockEscrowKeepsMaster(source, buyerTx, sellerTx) ==
    << [type |-> "setOptionsSigner", source |-> source,
        preAuthTx |-> TxHash(buyerTx), weight |-> 1],
       [type |-> "setOptionsSigner", source |-> source,
        preAuthTx |-> TxHash(sellerTx), weight |-> 1] >>

lockEscrow(source, buyerTx, sellerTx) ==
    << [type |-> "setOptionsSigner", source |-> source,
        preAuthTx |-> TxHash(buyerTx), weight |-> 1],
       [type |-> "setOptionsSigner", source |-> source,
        preAuthTx |-> TxHash(sellerTx), weight |-> 1],
       [type |-> "setOptionsMaster", source |-> source, masterWeight |-> 0] >>

----------------------------------------------------------------------------
(* StellarSdk.TransactionBuilder *)

(* setTimeout(timeout): 0 leaves maxTime unbounded, else now + timeout *)
SetTimeout(timeout, dateNow) == IF timeout > 0 THEN dateNow + timeout ELSE 0

(* build(): the transaction carries the source account's sequence plus 1 *)
TxBuild(source, accountSequence, fee, minTime, maxTime, ops) ==
    [source |-> source, seq |-> SeqNext(accountSequence), fee |-> fee,
     minTime |-> minTime, maxTime |-> maxTime, ops |-> ops]

----------------------------------------------------------------------------
(* class Option *)

(* a variant that sizes the balance as for a native underlying always *)
calculateStartingBalanceNativeOnly(o) == o.baseReserve * 4 + o.fee * 3

(* a variant that leaves fees for the operations of refund only *)
calculateStartingBalanceRefundFees(o) ==
    LET isNonNative == IF ~IsNative(o.underlying.asset) THEN 1 ELSE 0
    IN  o.baseReserve * (4 + isNonNative) + o.fee * (2 + isNonNative)

calculateStartingBalance(o) ==
    LET isNonNative == IF ~IsNative(o.underlying.asset) THEN 1 ELSE 0
        numSubentries == 4 + isNonNative
        numOperations == 3 + isNonNative
    IN  o.baseReserve * numSubentries + o.fee * numOperations

(* a variant that estimates with five seconds a ledger and no halving *)
calculateEscrowSequenceNumberNoMidPoint(o, ledger) ==
    ledgerToSequenceNumber(
        ledger.sequence + (o.timeout + (o.expiry - ledger.closed_at)) \div 5)

(* ledger: the latest ledger record (sequence, closed_at) *)
calculateEscrowSequenceNumber(o, ledger) ==
    LET now == ledger.closed_at
        sequence == ledger.sequence
        submitOffset == o.timeout
        expiryOffset == o.expiry - now
        midPointLedgerOffset == (submitOffset + expiryOffset) \div 10
    IN  ledgerToSequenceNumber(sequence + midPointLedgerOffset)

(* a variant that forgets the delay *)
ExerciseMaxTimeNoDelay(o) == o.expiry

ExerciseMaxTime(o) == o.expiry + o.delay

(* a variant built on an account object another builder has already used:
   build() has moved its sequence number on by one *)
buildExerciseTransactionSharedAccount(o, escrow, sequenceNumber) ==
    TxBuild(escrow, SeqNext(sequenceNumber), o.fee, o.expiry, ExerciseMaxTime(o),
            sendPayment(o.buyer, o.seller, o.exercise)
            \o sendPayment(escrow, o.buyer, o.underlying)
            \o removeTrustline(escrow, o.underlying)
            \o mergeAccount(escrow, o.seller))

(* a variant that releases the underlying before the strike is paid *)
buildExerciseTransactionReleaseFirst(o, escrow, sequenceNumber) ==
    TxBuild(escrow, sequenceNumber, o.fee, o.expiry, ExerciseMaxTime(o),
            sendPayment(escrow, o.buyer, o.underlying)
            \o sendPayment(o.buyer, o.seller, o.exercise)
            \o removeTrustline(escrow, o.underlying)
            \o mergeAccount(escrow, o.seller))

(* a variant that releases the underlying without the strike being paid *)
buildExerciseTransactionNoStrike(o, escrow, sequenceNumber) ==
    TxBuild(escrow, sequenceNumber, o.fee, o.expiry, ExerciseMaxTime(o),
            sendPayment(escrow, o.buyer, o.underlying)
            \o removeTrustline(escrow, o.underlying)
            \o mergeAccount(escrow, o.seller))

buildExerciseTransaction(o, escrow, sequenceNumber) ==
    TxBuild(escrow, sequenceNumber, o.fee, o.expiry, ExerciseMaxTime(o),
            sendPayment(o.buyer, o.seller, o.exercise)
            \o sendPayment(escrow, o.buyer, o.underlying)
            \o removeTrustline(escrow, o.underlying)
            \o mergeAccount(escrow, o.seller))

(* a variant that opens refund at expiry *)
RefundMinTimeNoDelay(o) == o.expiry

RefundMinTime(o) == o.expiry + o.delay

(* a variant built on the account object the exercise builder has used *)
buildRefundTransactionSharedAccount(o, escrow, sequenceNumber) ==
    TxBuild(escrow, SeqNext(sequenceNumber), o.fee, RefundMinTime(o), SetTimeout(0, 0),
            sendPayment(escrow, o.seller, o.underlying)
            \o removeTrustline(escrow, o.underlying)
            \o mergeAccount(escrow, o.seller))

buildRefundTransaction(o, escrow, sequenceNumber) ==
    TxBuild(escrow, sequenceNumber, o.fee, RefundMinTime(o), SetTimeout(0, 0),
            sendPayment(escrow, o.seller, o.underlying)
            \o removeTrustline(escrow, o.underlying)
            \o mergeAccount(escrow, o.seller))

(* a variant that signs all three transactions with the escrow key *)
escrowKeysSignAll(escrow) ==
    [setup |-> {escrow}, exercise |-> {escrow}, refund |-> {escrow}]

(* setupTx.sign(escrowKeys): the signatures each returned transaction carries *)
escrowKeysSign(escrow) ==
    [setup |-> {escrow}, exercise |-> {}, refund |-> {}]

(* a variant that builds exercise once more after its hash has been taken,
   on the account object the first build() has moved on, and returns that *)
createTransactionsRebuilt(o, escrow, account, ledger, dateNow) ==
    LET escrowSequence == calculateEscrowSequenceNumber(o, ledger)
        balance == calculateStartingBalance(o)
        sellerTx == buildRefundTransaction(o, escrow, escrowSequence)
        buyerTx == buildExerciseTransaction(o, escrow, escrowSequence)
        setupTx == TxBuild(o.seller, account, o.fee, 0,
                           SetTimeout(o.timeout, dateNow),
                           createAccount(o.seller, escrow, balance, escrowSequence)
                           \o addTrustline(escrow, o.underlying)
                           \o sendPayment(o.seller, escrow, o.underlying)
                           \o sendPayment(o.buyer, o.seller, o.premium)
                           \o lockEscrow(escrow, buyerTx, sellerTx))
    IN  [setup |-> setupTx,
         exercise |-> buildExerciseTransaction(o, escrow, SeqNext(escrowSequence)),
         refund |-> sellerTx, signedBy |-> escrowKeysSign(escrow)]

(* account: the seller's sequence as loadAccount gave it; ledger: the latest
   ledger record; dateNow: the local clock when setTimeout runs *)
createTransactions(o, escrow, account, ledger, dateNow) ==
    LET escrowSequence == calculateEscrowSequenceNumber(o, ledger)
        balance == calculateStartingBalance(o)
        sellerTx == buildRefundTransaction(o, escrow, escrowSequence)
        buyerTx == buildExerciseTransaction(o, escrow, escrowSequence)
        setupTx == TxBuild(o.seller, account, o.fee, 0,
                           SetTimeout(o.timeout, dateNow),
                           createAccount(o.seller, escrow, balance, escrowSequence)
                           \o addTrustline(escrow, o.underlying)
                           \o sendPayment(o.seller, escrow, o.underlying)
                           \o sendPayment(o.buyer, o.seller, o.premium)
                           \o lockEscrow(escrow, buyerTx, sellerTx))
    IN  [setup |-> setupTx, exercise |-> buyerTx, refund |-> sellerTx,
         signedBy |-> escrowKeysSign(escrow)]

(* StellarSdk.Operation.*: the call throws on an amount that is not a
   positive number (a trust limit may be zero) *)
OperationThrows(op) ==
    CASE op.type = "payment" -> op.amount <= 0
      [] op.type = "createAccount" -> op.startingBalance <= 0
      [] op.type = "changeTrust" -> op.limit < 0
      [] OTHER -> FALSE

(* a variant of the SDK that takes any amount *)
createTransactionsNeverThrows(o, escrow, account, ledger, dateNow) == FALSE

(* whether createTransactions ends in an exception: one of the operations it
   makes is refused, in any of the three builders *)
createTransactionsThrows(o, escrow, account, ledger, dateNow) ==
    LET r == createTransactions(o, escrow, account, ledger, dateNow)
    IN  \E k \in Kinds : \E i \in 1..Len(r[k].ops) : OperationThrows(r[k].ops[i])

----------------------------------------------------------------------------
(* The ledger the transactions are written against *)

Holders == {Buyer, Seller} \cup EscrowIds

NoAccount ==
    [exists |-> FALSE, seq |-> ledgerToSequenceNumber(0), master |-> 0,
     signers |-> {}, native |-> 0, trust |-> FALSE]

(* minimum balance: two reserves for the account, one per subentry *)
MinBalance(a) ==
    BaseReserveStroops * (2 + Cardinality(a.signers) + (IF a.trust THEN 1 ELSE 0))

Move(bal, from, to, asset, amount) ==
    [bal EXCEPT ![from][asset] = @ - amount, ![to][asset] = @ + amount]

Failed(L) == [ok |-> FALSE, L |-> L]
Done(L) == [ok |-> TRUE, L |-> L]

(* one operation applied in ledger h; an account created in ledger h starts
   at sequence h * 2^32 *)
ApplyOp(L, op, h) ==
    CASE op.type = "createAccount" ->
            IF L.esc[op.destination].exists
               \/ op.startingBalance < 2 * BaseReserveStroops
            THEN Failed(L)
            ELSE Done([L EXCEPT !.esc[op.destination] =
                        [exists |-> TRUE, seq |-> ledgerToSequenceNumber(h),
                         master |-> 1, signers |-> {},
                         native |-> op.startingBalance, trust |-> FALSE]])
      [] op.type = "bumpSequence" ->
            IF ~L.esc[op.source].exists THEN Failed(L)
            ELSE IF SeqLess(L.esc[op.source].seq, op.bumpTo)
                 THEN Done([L EXCEPT !.esc[op.source].seq = op.bumpTo])
                 ELSE Done(L)
      [] op.type = "changeTrust" ->
            IF ~L.esc[op.source].exists THEN Failed(L)
            ELSE IF op.limit > 0
                 THEN Done([L EXCEPT !.esc[op.source].trust = TRUE])
                 ELSE IF L.esc[op.source].trust /\ L.bal[op.source][op.asset] = 0
                      THEN Done([L EXCEPT !.esc[op.source].trust = FALSE])
                      ELSE Failed(L)
      [] op.type = "payment" ->
            IF \/ (op.source \in EscrowIds /\ ~L.esc[op.source].exists)
               \/ L.bal[op.source][op.asset] < op.amount
               \/ /\ op.destination \in EscrowIds
                  /\ \/ ~L.esc[op.destination].exists
                     \/ (~IsNative(op.asset) /\ ~L.esc[op.destination].trust)
            THEN Failed(L)
            ELSE Done([L EXCEPT !.bal =
                        Move(@, op.source, op.destination, op.asset, op.amount)])
      [] op.type = "setOptionsSigner" ->
            IF ~L.esc[op.source].exists THEN Failed(L)
            ELSE Done([L EXCEPT !.esc[op.source].signers = @ \cup {op.preAuthTx}])
      [] op.type = "setOptionsMaster" ->
            IF ~L.esc[op.source].exists THEN Failed(L)
            ELSE Done([L EXCEPT !.esc[op.source].master = op.masterWeight])
      [] op.type = "accountMerge" ->
            IF \/ ~L.esc[op.source].exists
               \/ L.esc[op.source].trust
               \/ ~SeqLess(L.esc[op.source].seq, ledgerToSequenceNumber(h))
            THEN Failed(L)
            ELSE Done([L EXCEPT
                        !.esc[op.source] = NoAccount,
                        !.bal = Move(@, op.source, op.destination, Native,
                                     L.bal[op.source][Native])])

RECURSIVE ApplyOps(_, _, _)
ApplyOps(L, ops, h) ==
    IF ops = << >> THEN Done(L)
    ELSE LET r == ApplyOp(L, Head(ops), h)
         IN  IF r.ok THEN ApplyOps(r.L, Tail(ops), h) ELSE r

AccountExists(L, id) == id \in EscrowIds => L.esc[id].exists

AccountSeq(L, id) == IF id = Seller THEN L.sellerSeq ELSE L.esc[id].seq

TxSources(tx) == {tx.source} \cup {tx.ops[i].source : i \in 1..Len(tx.ops)}

(* a pre-authorised hash of weight 1, or the master key while it has weight;
   an operation on an account not yet created is signed by the account's key *)
Authorised(L, id, tx, sigs) ==
    IF id \in EscrowIds /\ L.esc[id].exists
    THEN \/ TxHash(tx) \in L.esc[id].signers
         \/ (id \in sigs /\ L.esc[id].master > 0)
    ELSE id \in sigs

InTimeBounds(tx, t) == tx.minTime <= t /\ (tx.maxTime = 0 \/ t <= tx.maxTime)

TotalFee(tx) == tx.fee * Len(tx.ops)

(* whether the ledger closing at height h, time t takes the transaction *)
CheckValid(L, tx, sigs, h, t) ==
    /\ AccountExists(L, tx.source)
    /\ tx.source \in EscrowIds \cup {Seller}
    /\ tx.seq = SeqNext(AccountSeq(L, tx.source))
    /\ InTimeBounds(tx, t)
    /\ tx.source \in EscrowIds =>
           L.esc[tx.source].native - MinBalance(L.esc[tx.source]) >= TotalFee(tx)
    /\ \A id \in TxSources(tx) : Authorised(L, id, tx, sigs)

(* the sequence number is consumed, the fee charged and the one-time signer
   removed whether or not the operations then succeed *)
ConsumeTx(L, tx) ==
    LET used == [e \in EscrowIds |->
                    IF e \in TxSources(tx) /\ L.esc[e].exists
                    THEN [L.esc[e] EXCEPT !.signers = @ \ {TxHash(tx)}]
                    ELSE L.esc[e]]
    IN  IF tx.source = Seller
        THEN [L EXCEPT !.esc = used, !.sellerSeq = tx.seq]
        ELSE [L EXCEPT !.esc = [used EXCEPT ![tx.source].seq = tx.seq,
                                            ![tx.source].native = @ - TotalFee(tx)]]

ApplyTx(L, tx, h) ==
    LET L1 == ConsumeTx(L, tx)
        r == ApplyOps(L1, tx.ops, h)
    IN  IF r.ok THEN [st |-> "ok", L |-> r.L] ELSE [st |-> "failed", L |-> L1]

----------------------------------------------------------------------------
(* The state machine *)

Options ==
    { [buyer |-> Buyer, seller |-> Seller,
       underlying |-> [asset |-> a, amount |-> 1],
       premium |-> [asset |-> Native, amount |-> 10],
       exercise |-> [asset |-> Native, amount |-> 200],
       expiry |-> e, delay |-> d,
       baseReserve |-> BaseReserveStroops, fee |-> DefaultFee, timeout |-> to] :
      a \in {Native, NonNative}, e \in Expiries, d \in Delays, to \in Timeouts }

NoResult == [none |-> TRUE]

NotTaken == [st |-> "none", time |-> 0]

HistKinds == Kinds \cup {"forged", "elsewhere"}

(* the buyer holds the premium, and the strike or not; the seller holds the
   underlying of every build *)
InitialBalances(o, buyerFunded) ==
    [h \in Holders |-> [a \in {Native, NonNative} |->
        (IF h = Buyer /\ a = Native
         THEN 2 * o.premium.amount + (IF buyerFunded THEN 2 * o.exercise.amount ELSE 0)
         ELSE 0)
        + (IF h = Seller /\ a = o.underlying.asset THEN 2 * o.underlying.amount ELSE 0)]]

InitWith(active) ==
    /\ opt \in Options
    /\ build = [b \in Builds |->
                  [pc |-> IF b \in active THEN "idle" ELSE "off",
                   escrow |-> KeypairRandom(b),
                   account |-> ledgerToSequenceNumber(0)]]
    /\ out = [b \in Builds |-> NoResult]
    /\ ledgerSeq = StartLedger
    /\ closeTime = StartTime
    /\ \E buyerFunded \in BOOLEAN :
          led = [esc |-> [e \in EscrowIds |-> NoAccount],
                 sellerSeq |-> [hi |-> StartLedger - 50, lo |-> 7],
                 bal |-> InitialBalances(opt, buyerFunded)]
    /\ hist = [b \in Builds |-> [k \in HistKinds |-> NotTaken]]

Init == InitWith({1})

(* the model runs createTransactions while the ledger is young *)
InBuildWindow == closeTime <= StartTime + BeginWindow

(* createTransactions, up to its first await: the key pair is drawn and the
   seller's account asked for *)
Begin(b) ==
    /\ build[b].pc = "idle"
    /\ InBuildWindow
    /\ build' = [build EXCEPT ![b].pc = "loadAccount",
                              ![b].escrow = KeypairRandom(b)]
    /\ UNCHANGED <<opt, out, ledgerSeq, closeTime, led, hist>>

(* a variant in which the account object is one object shared by all
   invocations *)
LoadAccountShared(b) ==
    /\ build[b].pc = "loadAccount"
    /\ InBuildWindow
    /\ build' = [c \in Builds |->
                   IF c = b
                   THEN [build[c] EXCEPT !.pc = "ledgers", !.account = led.sellerSeq]
                   ELSE [build[c] EXCEPT !.account = led.sellerSeq]]
    /\ UNCHANGED <<opt, out, ledgerSeq, closeTime, led, hist>>

(* server.loadAccount answers: the seller's sequence number as of now *)
LoadAccount(b) ==
    /\ build[b].pc = "loadAccount"
    /\ InBuildWindow
    /\ build' = [build EXCEPT ![b].pc = "ledgers", ![b].account = led.sellerSeq]
    /\ UNCHANGED <<opt, out, ledgerSeq, closeTime, led, hist>>

(* server.loadAccount rejects: createTransactions rejects *)
LoadAccountFails(b) ==
    /\ build[b].pc = "loadAccount"
    /\ InBuildWindow
    /\ build' = [build EXCEPT ![b].pc = "failed"]
    /\ UNCHANGED <<opt, out, ledgerSeq, closeTime, led, hist>>

(* the latest ledger answers: the rest of createTransactions runs to its
   return, or to the exception of an operation the SDK refuses; the local clock
   is at or a little past the ledger's close time *)
Ledgers(b) ==
    /\ build[b].pc = "ledgers"
    /\ InBuildWindow
    /\ \E lag \in 0..MaxLag :
          LET ledger == [sequence |-> ledgerSeq, closed_at |-> closeTime]
          IN  IF createTransactionsThrows(opt, build[b].escrow, build[b].account,
                                          ledger, closeTime + lag)
              THEN /\ out' = out
                   /\ build' = [build EXCEPT ![b].pc = "failed"]
              ELSE /\ out' = [out EXCEPT ![b] =
                                 createTransactions(opt, build[b].escrow,
                                                    build[b].account, ledger,
                                                    closeTime + lag)]
                   /\ build' = [build EXCEPT ![b].pc = "done"]
    /\ UNCHANGED <<opt, ledgerSeq, closeTime, led, hist>>

(* a variant that hands back what was built before the query failed *)
LedgersFailsPartial(b) ==
    /\ build[b].pc = "ledgers"
    /\ InBuildWindow
    /\ build' = [build EXCEPT ![b].pc = "failed"]
    /\ out' = [out EXCEPT ![b] =
                 [setup |-> TxBuild(opt.seller, build[b].account, opt.fee, 0, 0, << >>)]]
    /\ UNCHANGED <<opt, ledgerSeq, closeTime, led, hist>>

(* the latest-ledger query rejects: createTransactions rejects *)
LedgersFails(b) ==
    /\ build[b].pc = "ledgers"
    /\ InBuildWindow
    /\ build' = [build EXCEPT ![b].pc = "failed"]
    /\ UNCHANGED <<opt, out, ledgerSeq, closeTime, led, hist>>

(* a ledger closes without any transaction of interest *)
CloseLedger ==
    /\ closeTime < MaxClock
    /\ \E dt \in LedgerCloseSeconds :
          /\ ledgerSeq' = ledgerSeq + 1
          /\ closeTime' = closeTime + dt
    /\ UNCHANGED <<opt, build, out, led, hist>>

(* the signatures a transaction is submitted with: setup signed by the escrow
   key in createTransactions and then by buyer and seller, exercise by the
   buyer, refund as it is *)
SubmittedSignatures(b, k) ==
    out[b].signedBy[k] \cup
        (CASE k = "setup" -> {Buyer, Seller}
           [] k = "exercise" -> {Buyer}
           [] k = "refund" -> {})

(* the next ledger takes transaction tx: its outcome is recorded, and for the
   three returned transactions the close time of that ledger *)
Take(b, k, tx, sigs) ==
    /\ closeTime < MaxClock
    /\ \E dt \in LedgerCloseSeconds :
          /\ CheckValid(led, tx, sigs, ledgerSeq + 1, closeTime + dt)
          /\ ledgerSeq' = ledgerSeq + 1
          /\ closeTime' = closeTime + dt
          /\ LET r == ApplyTx(led, tx, ledgerSeq + 1)
             IN  /\ led' = r.L
                 /\ hist' = [hist EXCEPT ![b][k] =
                               [st |-> r.st,
                                time |-> IF k \in Kinds THEN closeTime + dt ELSE 0]]
    /\ UNCHANGED <<opt, build, out>>

(* server.submitTransaction of one of the three returned transactions *)
Submit(b, k) ==
    /\ out[b] # NoResult
    /\ Take(b, k, out[b][k], SubmittedSignatures(b, k))

(* a transaction that is neither exercise nor refund, with the escrow account
   as its source and its current sequence number, signed with every key there
   is: it takes what the escrow holds to the buyer *)
ForgedTx(b) ==
    LET e == build[b].escrow
    IN  TxBuild(e, led.esc[e].seq, opt.fee, 0, 0,
                sendPayment(e, Buyer, opt.underlying)
                \o removeTrustline(e, opt.underlying)
                \o mergeAccount(e, Buyer))

SubmitForged(b) ==
    /\ out[b] # NoResult
    /\ hist[b]["forged"].st = "none"
    /\ Take(b, "forged", ForgedTx(b), {Buyer, Seller, build[b].escrow})

(* somebody else creates an account under the escrow's public key *)
CreateEscrowElsewhere(b) ==
    /\ out[b] # NoResult
    /\ closeTime < MaxClock
    /\ ~led.esc[build[b].escrow].exists
    /\ hist[b]["elsewhere"].st = "none"
    /\ \E dt \in LedgerCloseSeconds :
          /\ ledgerSeq' = ledgerSeq + 1
          /\ closeTime' = closeTime + dt
          /\ led' = ApplyOp(led, createAccount(Buyer, build[b].escrow,
                                               3 * BaseReserveStroops, Undefined)[1],
                            ledgerSeq + 1).L
    /\ hist' = [hist EXCEPT ![b]["elsewhere"].st = "ok"]
    /\ UNCHANGED <<opt, build, out>>

Next ==
    \/ \E b \in Builds : Begin(b)
    \/ \E b \in Builds : LoadAccount(b)
    \/ \E b \in Builds : LoadAccountFails(b)
    \/ \E b \in Builds : Ledgers(b)
    \/ \E b \in Builds : LedgersFails(b)
    \/ CloseLedger
    \/ \E b \in Builds, k \in Kinds : Submit(b, k)
    \/ \E b \in Builds : SubmitForged(b)
    \/ \E b \in Builds : CreateEscrowElsewhere(b)

Spec == Init /\ [][Next]_vars

----------------------------------------------------------------------------
(* What the claims speak of *)

Built(b) == out[b] # NoResult

(* the ledger took the transaction: its sequence number is used up *)
Taken(b, k) == hist[b][k].st # "none"

(* the ledger took the transaction and all its operations succeeded *)
Succeeded(b, k) == hist[b][k].st = "ok"

(* some next ledger would take the transaction as it is submitted *)
NextLedgerTakes(b, k) ==
    \E dt \in LedgerCloseSeconds :
        CheckValid(led, out[b][k], SubmittedSignatures(b, k),
                   ledgerSeq + 1, closeTime + dt)

(* the bumpTo of the bump-sequence operation in setup *)
BumpTarget(b) ==
    LET ops == out[b].setup.ops
        i == CHOOSE j \in 1..Len(ops) : ops[j].type = "bumpSequence"
    IN  ops[i].bumpTo

HasBump(b) == \E j \in 1..Len(out[b].setup.ops) : out[b].setup.ops[j].type = "bumpSequence"

(* C1: for one build, at most one of exercise and refund is ever taken by the
   ledger, and once one has been taken no next ledger takes the other *)
C1_MutualExclusion ==
    \A b \in Builds : Built(b) =>
        /\ ~(Taken(b, "exercise") /\ Taken(b, "refund"))
        /\ Taken(b, "exercise") => ~NextLedgerTakes(b, "refund")
        /\ Taken(b, "refund") => ~NextLedgerTakes(b, "exercise")

(* exercise has succeeded and the clock is inside refund's time bounds *)
C1_Witness ==
    /\ Succeeded(1, "exercise")
    /\ InTimeBounds(out[1].refund, closeTime + 5)

(* the ledger times the time-bound claims range over *)
TimeRange == (StartTime + 5)..(MaxClock + 1)

(* C2 as claimed: exercise is inside its time bounds exactly on
   [expiry, expiry + delay), refund exactly from expiry + delay on, so at no
   time both are and from expiry on never neither *)
C2_DisjointContiguous ==
    \A b \in Builds : Built(b) =>
        \A t \in TimeRange :
            /\ InTimeBounds(out[b].exercise, t)
                  <=> (opt.expiry <= t /\ t < opt.expiry + opt.delay)
            /\ InTimeBounds(out[b].refund, t) <=> (opt.expiry + opt.delay <= t)
            /\ ~(InTimeBounds(out[b].exercise, t) /\ InTimeBounds(out[b].refund, t))
            /\ t >= opt.expiry =>
                  (InTimeBounds(out[b].exercise, t) \/ InTimeBounds(out[b].refund, t))

(* C2 amended: exercise is inside its time bounds exactly on the closed
   interval [expiry, expiry + delay], refund exactly from expiry + delay on:
   no gap from expiry on, and both inside only at the instant expiry + delay *)
C2_ContiguousOverlapOneInstant ==
    \A b \in Builds : Built(b) =>
        \A t \in TimeRange :
            /\ InTimeBounds(out[b].exercise, t)
                  <=> (opt.expiry <= t /\ t <= opt.expiry + opt.delay)
            /\ InTimeBounds(out[b].refund, t) <=> (opt.expiry + opt.delay <= t)
            /\ (InTimeBounds(out[b].exercise, t) /\ InTimeBounds(out[b].refund, t))
                  <=> (t = opt.expiry + opt.delay)
            /\ t >= opt.expiry =>
                  (InTimeBounds(out[b].exercise, t) \/ InTimeBounds(out[b].refund, t))

(* setup has succeeded and the next ledger, closing at expiry + delay, would
   take exercise and would take refund *)
C2_Witness ==
    /\ Succeeded(1, "setup")
    /\ closeTime + 5 = opt.expiry + opt.delay
    /\ CheckValid(led, out[1].exercise, SubmittedSignatures(1, "exercise"),
                  ledgerSeq + 1, closeTime + 5)
    /\ CheckValid(led, out[1].refund, SubmittedSignatures(1, "refund"),
                  ledgerSeq + 1, closeTime + 5)

(* C3 as claimed: exercise and refund carry the same sequence number, and it
   is the bumpTo of setup's bump-sequence operation *)
C3_SequenceEqualsBumpTarget ==
    \A b \in Builds : Built(b) =>
        /\ HasBump(b)
        /\ out[b].exercise.seq = out[b].refund.seq
        /\ out[b].exercise.seq = BumpTarget(b)

(* C3 amended: exercise and refund carry the same sequence number, and it is
   the bumpTo of setup's bump-sequence operation plus one, the number that
   follows the one the escrow account is bumped to; bumpTo has its low 32
   bits zero *)
C3_SequenceFollowsBumpTarget ==
    \A b \in Builds : Built(b) =>
        /\ HasBump(b)
        /\ out[b].exercise.seq = out[b].refund.seq
        /\ out[b].exercise.seq = [hi |-> BumpTarget(b).hi, lo |-> BumpTarget(b).lo + 1]
        /\ BumpTarget(b).lo = 0

(* setup has bumped the escrow account to bumpTo and the next ledger would take
   exercise, whose sequence number is bumpTo plus one *)
C3_Witness ==
    /\ Succeeded(1, "setup")
    /\ led.esc[build[1].escrow].exists
    /\ led.esc[build[1].escrow].seq = BumpTarget(1)
    /\ out[1].exercise.seq # BumpTarget(1)
    /\ NextLedgerTakes(1, "exercise")

(* C4: whenever setup has succeeded, at whatever ledger inside its validity
   window, the escrow account stands at exactly the predicted number, so that
   the sequence number of exercise and refund is the next one *)
C4_EscrowAtPredictedSequence ==
    \A b \in Builds :
        (Succeeded(b, "setup") /\ ~Taken(b, "exercise") /\ ~Taken(b, "refund")) =>
            /\ led.esc[build[b].escrow].exists
            /\ led.esc[build[b].escrow].seq = BumpTarget(b)
            /\ SeqNext(led.esc[build[b].escrow].seq) = out[b].refund.seq

(* the outcome of refund, submitted as returned, in the ledger closing dt
   seconds from now *)
RefundOutcome(b, dt) ==
    IF CheckValid(led, out[b].refund, out[b].signedBy["refund"],
                  ledgerSeq + 1, closeTime + dt)
    THEN ApplyTx(led, out[b].refund, ledgerSeq + 1)
    ELSE [st |-> "rejected", L |-> led]

(* C5: once setup has succeeded and exercise has not, refund submitted as
   returned in any ledger closing at or after expiry + delay succeeds: the
   underlying is back with the seller and the escrow account is gone *)
C5_RefundAlwaysAvailable ==
    \A b \in Builds :
        (Succeeded(b, "setup") /\ ~Succeeded(b, "exercise") /\ ~Taken(b, "refund")) =>
            \A dt \in LedgerCloseSeconds :
                closeTime + dt >= opt.expiry + opt.delay =>
                    LET r == RefundOutcome(b, dt)
                    IN  /\ r.st = "ok"
                        /\ ~r.L.esc[build[b].escrow].exists
                        /\ r.L.bal[build[b].escrow][opt.underlying.asset] = 0

(* C6: the ledger never takes exercise at a close time before expiry, nor
   refund at a close time before expiry + delay *)
C6_EuropeanTiming ==
    \A b \in Builds :
        /\ Taken(b, "exercise") => hist[b]["exercise"].time >= opt.expiry
        /\ Taken(b, "refund") => hist[b]["refund"].time >= opt.expiry + opt.delay

(* refund has succeeded, for an option with a delay *)
C6_Witness ==
    /\ Succeeded(1, "refund")
    /\ opt.delay > 0
    /\ hist[1]["refund"].time >= opt.expiry + opt.delay

(* C7: from the moment setup has succeeded until exercise or refund closes the
   escrow account, its master weight is 0, its signers are the hashes of
   exercise and refund and nothing else (both of them until the ledger takes
   one), and no next ledger takes a transaction of the escrow account other
   than those two, whoever signs it *)
C7_EscrowLocked ==
    \A b \in Builds :
        (Succeeded(b, "setup") /\ ~Succeeded(b, "exercise") /\ ~Succeeded(b, "refund")) =>
            LET a == led.esc[build[b].escrow]
                both == {TxHash(out[b].exercise), TxHash(out[b].refund)}
            IN  /\ a.exists
                /\ a.master = 0
                /\ a.signers \subseteq both
                /\ (~Taken(b, "exercise") /\ ~Taken(b, "refund")) => a.signers = both
                /\ ~Taken(b, "forged")
                /\ \A dt \in LedgerCloseSeconds :
                      ~CheckValid(led, ForgedTx(b), {Buyer, Seller, build[b].escrow},
                                  ledgerSeq + 1, closeTime + dt)

(* setup has succeeded and the escrow account holds the underlying *)
C7_Witness ==
    /\ Succeeded(1, "setup")
    /\ led.esc[build[1].escrow].exists
    /\ led.bal[build[1].escrow][opt.underlying.asset] = opt.underlying.amount
    /\ Cardinality(led.esc[build[1].escrow].signers) = 2

(* C8: the ledger takes exercise or refund only after setup of the same build
   has succeeded *)
C8_SetupFirst ==
    \A b \in Builds :
        (Taken(b, "exercise") \/ Taken(b, "refund")) => Succeeded(b, "setup")

(* an account exists under the escrow's key that setup did not create, and
   exercise is inside its time bounds *)
C8_Witness ==
    /\ Built(1)
    /\ ~Succeeded(1, "setup")
    /\ led.esc[build[1].escrow].exists
    /\ InTimeBounds(out[1].exercise, closeTime + 5)

(* the operations of a transaction: type, source, destination *)
Shape(ops) ==
    [i \in 1..Len(ops) |->
        <<ops[i].type, ops[i].source,
          IF ops[i].type \in {"createAccount", "payment", "accountMerge"}
          THEN ops[i].destination ELSE "">>]

(* the build protocol, written out *)
ProtocolSetup(e, nonNative) ==
    << <<"createAccount", Seller, e>>, <<"bumpSequence", e, "">> >>
    \o (IF nonNative THEN << <<"changeTrust", e, "">> >> ELSE << >>)
    \o << <<"payment", Seller, e>>, <<"payment", Buyer, Seller>>,
          <<"setOptionsSigner", e, "">>, <<"setOptionsSigner", e, "">>,
          <<"setOptionsMaster", e, "">> >>

ProtocolExercise(e, nonNative) ==
    << <<"payment", Buyer, Seller>>, <<"payment", e, Buyer>> >>
    \o (IF nonNative THEN << <<"changeTrust", e, "">> >> ELSE << >>)
    \o << <<"accountMerge", e, Seller>> >>

ProtocolRefund(e, nonNative) ==
    << <<"payment", e, Seller>> >>
    \o (IF nonNative THEN << <<"changeTrust", e, "">> >> ELSE << >>)
    \o << <<"accountMerge", e, Seller>> >>

(* C9: each returned transaction holds exactly the operations of the build
   protocol, in its order, with the protocol's amounts, hashes and weights *)
C9_OperationOrder ==
    \A b \in Builds : Built(b) =>
        LET e == build[b].escrow
            nn == opt.underlying.asset # Native
            su == out[b].setup.ops
            ex == out[b].exercise.ops
            rf == out[b].refund.ops
            k == IF nn THEN 1 ELSE 0
        IN  /\ Shape(su) = ProtocolSetup(e, nn)
            /\ Shape(ex) = ProtocolExercise(e, nn)
            /\ Shape(rf) = ProtocolRefund(e, nn)
            /\ su[1].startingBalance = calculateStartingBalance(opt)
            /\ nn => (su[3].asset = opt.underlying.asset /\ su[3].limit > 0)
            /\ <<su[3 + k].asset, su[3 + k].amount>>
                  = <<opt.underlying.asset, opt.underlying.amount>>
            /\ <<su[4 + k].asset, su[4 + k].amount>>
                  = <<opt.premium.asset, opt.premium.amount>>
            /\ su[5 + k].preAuthTx = TxHash(out[b].exercise) /\ su[5 + k].weight = 1
            /\ su[6 + k].preAuthTx = TxHash(out[b].refund) /\ su[6 + k].weight = 1
            /\ su[7 + k].masterWeight = 0
            /\ <<ex[1].asset, ex[1].amount>> = <<opt.exercise.asset, opt.exercise.amount>>
            /\ <<ex[2].asset, ex[2].amount>>
                  = <<opt.underlying.asset, opt.underlying.amount>>
            /\ <<rf[1].asset, rf[1].amount>>
                  = <<opt.underlying.asset, opt.underlying.amount>>

(* the three transactions of a non-native underlying have been built, and the
   ledger has carried out setup and then exercise in that order of operations *)
C9_Witness ==
    /\ Built(1)
    /\ opt.underlying.asset # Native
    /\ Len(out[1].setup.ops) = 8
    /\ Succeeded(1, "setup")
    /\ Succeeded(1, "exercise")

(* the trust removals of a transaction for an asset on an account *)
TrustRemovals(tx, account, asset) ==
    {i \in 1..Len(tx.ops) :
        /\ tx.ops[i].type = "changeTrust"
        /\ tx.ops[i].source = account
        /\ tx.ops[i].asset = asset
        /\ tx.ops[i].limit = 0}

ChangeTrusts(tx) == {i \in 1..Len(tx.ops) : tx.ops[i].type = "changeTrust"}

(* C10: for a non-native underlying both exercise and refund hold a
   change-trust with limit 0 for that asset on the escrow account; for a native
   underlying neither holds any change-trust *)
C10_TrustRemoval ==
    \A b \in Builds : Built(b) =>
        IF opt.underlying.asset # Native
        THEN /\ TrustRemovals(out[b].exercise, build[b].escrow, opt.underlying.asset) # {}
             /\ TrustRemovals(out[b].refund, build[b].escrow, opt.underlying.asset) # {}
        ELSE /\ ChangeTrusts(out[b].exercise) = {}
             /\ ChangeTrusts(out[b].refund) = {}

(* refund of a non-native underlying has succeeded: the trust line it removed
   is gone with the account *)
C10_Witness ==
    /\ opt.underlying.asset # Native
    /\ Succeeded(1, "refund")
    /\ TrustRemovals(out[1].refund, build[1].escrow, opt.underlying.asset) # {}

----------------------------------------------------------------------------
(* createTransactions on its own: the inputs range wider than in Spec, the
   ledger stands still while two invocations run *)

Heights == {100, 250}
Nows == {1000, 1003}
WideTimeouts == {10, 1800}
WideExpiries == {975, 1020, 1300}
WideFees == {100, 1000}
WideReserves == {BaseReserveStroops, 2 * BaseReserveStroops}

WideOptions ==
    { [buyer |-> Buyer, seller |-> Seller,
       underlying |-> [asset |-> a, amount |-> 1],
       premium |-> [asset |-> Native, amount |-> 10],
       exercise |-> [asset |-> Native, amount |-> 200],
       expiry |-> e, delay |-> d,
       baseReserve |-> r, fee |-> f, timeout |-> to] :
      a \in {Native, NonNative}, e \in WideExpiries, d \in Delays,
      to \in WideTimeouts, f \in WideFees, r \in WideReserves }

InitBuildsOn(options) ==
    /\ opt \in options
    /\ build = [b \in Builds |->
                  [pc |-> "idle", escrow |-> KeypairRandom(b),
                   account |-> ledgerToSequenceNumber(0)]]
    /\ out = [b \in Builds |-> NoResult]
    /\ ledgerSeq \in Heights
    /\ closeTime \in Nows
    /\ led = [esc |-> [e \in EscrowIds |-> NoAccount],
              sellerSeq |-> [hi |-> 50, lo |-> 7],
              bal |-> InitialBalances(opt, TRUE)]
    /\ hist = [b \in Builds |-> [k \in HistKinds |-> NotTaken]]

InitBuilds == InitBuildsOn(WideOptions)

NextBuilds ==
    \/ \E b \in Builds : Begin(b)
    \/ \E b \in Builds : LoadAccount(b)
    \/ \E b \in Builds : LoadAccountFails(b)
    \/ \E b \in Builds : Ledgers(b)
    \/ \E b \in Builds : LedgersFails(b)

SpecBuilds == InitBuilds /\ [][NextBuilds]_vars

(* BigNumber.toString(): the decimal digits, most significant first *)
RECURSIVE DigitsOf(_)
DigitsOf(n) == IF n < 10 THEN <<n>> ELSE Append(DigitsOf(n \div 10), n % 10)

(* the digits of a number times k, plus carry *)
RECURSIVE TimesDigits(_, _, _)
TimesDigits(digits, k, carry) ==
    IF digits = << >>
    THEN (IF carry = 0 THEN << >> ELSE DigitsOf(carry))
    ELSE LET d == digits[Len(digits)] * k + carry
         IN  Append(TimesDigits(SubSeq(digits, 1, Len(digits) - 1), k, d \div 10),
                    d % 10)

(* 4294967296 *)
TwoTo32Digits == <<4, 2, 9, 4, 9, 6, 7, 2, 9, 6>>

(* the string ledgerToSequenceNumber returns: ledger times 4294967296 in
   decimal (a sequence number with low bits lo adds them) *)
SequenceString(s) ==
    IF s.hi = 0 THEN DigitsOf(s.lo) ELSE TimesDigits(TwoTo32Digits, s.hi, s.lo)

(* C11: the bumpTo of setup is target * 2^32 with its low 32 bits zero, where
   target - currentLedgerHeight is the floor of
   (submitTimeoutSeconds + (expiry - now)) / 10, for every input; for
   (100, 1000, 1800, 1300) the target is 310 and the number 1331439861760 *)
C11_LockSequenceFormula ==
    \A b \in Builds : Built(b) =>
        LET target == BumpTarget(b)
            offset == target.hi - ledgerSeq
            x == opt.timeout + (opt.expiry - closeTime)
        IN  /\ HasBump(b)
            /\ target.lo = 0
            /\ 10 * offset <= x /\ x < 10 * offset + 10
            /\ (ledgerSeq = 100 /\ closeTime = 1000
                /\ opt.timeout = 1800 /\ opt.expiry = 1300) =>
                   /\ offset = 210
                   /\ target.hi = 310
                   /\ SequenceString(target)
                         = <<1, 3, 3, 1, 4, 3, 9, 8, 6, 1, 7, 6, 0>>

(* the example's inputs have been built on *)
C11_Witness ==
    /\ Built(1)
    /\ ledgerSeq = 100 /\ closeTime = 1000
    /\ opt.timeout = 1800 /\ opt.expiry = 1300
    /\ BumpTarget(1).hi = 310

(* the starting balance setup gives the escrow account, in stroops *)
StartingBalance(b) == out[b].setup.ops[1].startingBalance

(* C12: the starting balance of the escrow account is
   baseReserve * (4 + extra) + fee * (3 + extra) with extra = 1 for a
   non-native underlying and 0 for a native one; for a native underlying and
   the default network parameters that is 0.5 * 4 + 0.0000001 * 1000 * 3 XLM,
   which is 20003000 stroops *)
C12_StartingBalanceFormula ==
    \A b \in Builds : Built(b) =>
        LET extra == IF opt.underlying.asset = Native THEN 0 ELSE 1
        IN  /\ out[b].setup.ops[1].type = "createAccount"
            /\ StartingBalance(b)
                  = opt.baseReserve * (4 + extra) + opt.fee * (3 + extra)
            /\ (opt.underlying.asset = Native /\ opt.baseReserve = 5000000
                /\ opt.fee = 1000) => StartingBalance(b) = 20003000
            /\ (opt.underlying.asset # Native /\ opt.baseReserve = 5000000
                /\ opt.fee = 1000) => StartingBalance(b) = 25004000

(* a non-native underlying has been built on with a fee and a reserve that are
   not the defaults *)
C12_Witness ==
    /\ Built(1)
    /\ opt.underlying.asset # Native
    /\ opt.fee # DefaultFee
    /\ opt.baseReserve # BaseReserveStroops
    /\ StartingBalance(1) = opt.baseReserve * 5 + opt.fee * 4

(* a transaction as build() leaves it: a source, a sequence number and at least
   one operation *)
IsTransaction(tx) ==
    /\ {"source", "seq", "ops"} \subseteq DOMAIN tx
    /\ Len(tx.ops) > 0

(* C13: an invocation whose seller-account or latest-ledger query has failed
   has returned nothing; nothing is returned before both queries have
   answered; and every set returned holds setup, exercise and refund, each a
   built transaction *)
C13_AllOrNothing ==
    \A b \in Builds :
        /\ build[b].pc # "done" => out[b] = NoResult
        /\ out[b] # NoResult =>
              /\ Kinds \subseteq DOMAIN out[b]
              /\ \A k \in Kinds : IsTransaction(out[b][k])

(* the latest-ledger query of one invocation has failed after its account
   query had answered, while the other invocation has returned its set *)
C13_Witness ==
    /\ build[1].pc = "failed"
    /\ build[1].account = led.sellerSeq
    /\ out[1] = NoResult
    /\ build[2].pc = "done"
    /\ out[2] # NoResult

NegativeAmount(o) ==
    o.underlying.amount < 0 \/ o.premium.amount < 0 \/ o.exercise.amount < 0

(* options that break a precondition: a negative amount somewhere, or a
   negative delay, or both *)
InvalidOptions ==
    { o \in
        { [buyer |-> Buyer, seller |-> Seller,
           underlying |-> [asset |-> a, amount |-> u],
           premium |-> [asset |-> Native, amount |-> p],
           exercise |-> [asset |-> Native, amount |-> x],
           expiry |-> 1020, delay |-> d,
           baseReserve |-> BaseReserveStroops, fee |-> DefaultFee, timeout |-> 10] :
          a \in {Native, NonNative}, u \in {-1, 1}, p \in {-10, 10},
          x \in {-200, 200}, d \in {-10, 10} } :
        NegativeAmount(o) \/ o.delay < 0 }

InitInvalid == InitBuildsOn(InvalidOptions)

SpecInvalid == InitInvalid /\ [][NextBuilds]_vars

(* C14: for an Option with a negative underlying, premium or exercise amount,
   or with a negative delay, createTransactions returns no transaction set *)
C14_InvalidParamsAbort ==
    (NegativeAmount(opt) \/ opt.delay < 0) =>
        \A b \in Builds : out[b] = NoResult

(* the part of C14 that holds: a negative amount ends createTransactions in
   the SDK's exception, whatever the delay *)
C14_NegativeAmountAborts ==
    NegativeAmount(opt) => \A b \in Builds : out[b] = NoResult

(* what is returned for a negative delay: an exercise whose time bounds no
   ledger time satisfies, and a refund that opens before expiry *)
C14_NegativeDelayReturned ==
    /\ opt.delay < 0
    /\ Built(1)
    /\ out[1].exercise.maxTime < out[1].exercise.minTime
    /\ out[1].refund.minTime < opt.expiry

----------------------------------------------------------------------------
(* Two invocations of createTransactions on one Option, and the ledger *)

TwoOptions ==
    { o \in Options :
        o.expiry = StartTime + 10 /\ o.delay = 10 /\ o.timeout = 20 }

InitTwo ==
    /\ opt \in TwoOptions
    /\ build = [b \in Builds |->
                  [pc |-> "idle", escrow |-> KeypairRandom(b),
                   account |-> ledgerToSequenceNumber(0)]]
    /\ out = [b \in Builds |-> NoResult]
    /\ ledgerSeq = StartLedger
    /\ closeTime = StartTime
    /\ led = [esc |-> [e \in EscrowIds |-> NoAccount],
              sellerSeq |-> [hi |-> StartLedger - 50, lo |-> 7],
              bal |-> InitialBalances(opt, TRUE)]
    /\ hist = [b \in Builds |-> [k \in HistKinds |-> NotTaken]]

(* the invocations and the submissions of what they return; no query fails *)
NextTwo ==
    \/ \E b \in Builds : Begin(b)
    \/ \E b \in Builds : LoadAccount(b)
    \/ \E b \in Builds : Ledgers(b)
    \/ CloseLedger
    \/ \E b \in Builds, k \in Kinds : Submit(b, k)

SpecTwo == InitTwo /\ [][NextTwo]_vars

Terminal == {"exercise", "refund"}

(* every account a transaction names: sources and destinations *)
TxAccounts(tx) ==
    TxSources(tx) \cup
    {tx.ops[i].destination :
        i \in {j \in 1..Len(tx.ops) :
                 tx.ops[j].type \in {"createAccount", "payment", "accountMerge"}}}

(* C15: two invocations on one Option give two different escrow accounts, and
   neither build's exercise or refund works on the other build's escrow
   account: it does not name that account, its hash is no signer there, the
   ledger never takes it before its own setup has succeeded, and an escrow
   account that is set up and whose own exercise and refund are both untaken
   still exists and holds the underlying, whatever the ledger has taken of the
   other build *)
C15_BuildsNotInterchangeable ==
    \A b \in Builds : \A c \in Builds \ {b} :
        (Built(b) /\ Built(c)) =>
            /\ build[b].escrow # build[c].escrow
            /\ out[b].setup.ops[1].destination # out[c].setup.ops[1].destination
            /\ \A k \in Terminal :
                  /\ build[c].escrow \notin TxAccounts(out[b][k])
                  /\ TxHash(out[b][k]) \notin led.esc[build[c].escrow].signers
                  /\ Taken(b, k) => Succeeded(b, "setup")
            /\ (Succeeded(c, "setup") /\ \A k \in Terminal : ~Taken(c, k)) =>
                  /\ led.esc[build[c].escrow].exists
                  /\ led.bal[build[c].escrow][opt.underlying.asset]
                        = opt.underlying.amount

(* both escrow accounts have been set up, the ledger has carried out the
   exercise of one build, and the other build's escrow account is as it was *)
C15_Witness ==
    /\ Succeeded(1, "setup")
    /\ Succeeded(2, "setup")
    /\ Succeeded(1, "exercise")
    /\ ~Taken(2, "exercise") /\ ~Taken(2, "refund")
    /\ led.esc[build[2].escrow].exists

(* what an invocation returns when it runs on its own: a function of the
   Option, its key pair, the account it read and the ledger it read *)
AloneResults(o, escrow, account, ledger) ==
    {createTransactions(o, escrow, account, ledger, ledger.closed_at + lag) :
        lag \in 0..MaxLag}

(* C16: in every step, whatever the interleaving at the two reads, a step of
   one invocation leaves the other invocation's reads and result as they are;
   a result is returned once, never changed afterwards, and is what the
   invocation gives on its own for its key pair, the account it read and the
   ledger it read; and no step changes a field of the Option *)
C16_NoInterference ==
    [][ /\ opt' = opt
        /\ \A b \in Builds :
              /\ (build'[b] # build[b] \/ out'[b] # out[b]) =>
                    \A c \in Builds \ {b} : build'[c] = build[c] /\ out'[c] = out[c]
              /\ out'[b] # out[b] =>
                    /\ out[b] = NoResult
                    /\ out'[b] \in AloneResults(opt, build[b].escrow, build[b].account,
                                               [sequence |-> ledgerSeq,
                                                closed_at |-> closeTime])
              /\ (build[b].pc = "ledgers" /\ build'[b].pc # "ledgers") =>
                    build'[b].account = build[b].account ]_vars

(* two invocations have read the same account and then different ledgers: one
   ledger closed between their second reads, and both have returned *)
C16_Witness ==
    /\ Built(1) /\ Built(2)
    /\ out[1].setup.seq = out[2].setup.seq
    /\ out[2].setup.maxTime - out[1].setup.maxTime >= 4
    /\ out[1] = createTransactions(opt, build[1].escrow, build[1].account,
                                   [sequence |-> ledgerSeq - 1,
                                    closed_at |-> closeTime - 5],
                                   out[1].setup.maxTime - opt.timeout)
    /\ ledgerSeq = StartLedger + 1

(* C17: with a the ledger read, b = a + timeout / 5 and
   c = a + (expiry - now) / 5, the target ledger of the bump satisfies
   b <= target <= c for an option that has not expired (stated in fifths of a
   ledger: times five, less a) *)
C17_TargetBetween ==
    \A b \in Builds : (Built(b) /\ opt.expiry > closeTime) =>
        LET offset == BumpTarget(b).hi - ledgerSeq
        IN  /\ opt.timeout <= 5 * offset
            /\ 5 * offset <= opt.expiry - closeTime

(* what does hold: the target is the midpoint of b and c rounded down, so it
   is below the larger of the two and within one ledger of the smaller *)
C17_TargetIsMidPoint ==
    \A b \in Builds : Built(b) =>
        LET offset == BumpTarget(b).hi - ledgerSeq
            submitOffset == opt.timeout
            expiryOffset == opt.expiry - closeTime
            lo == IF submitOffset < expiryOffset THEN submitOffset ELSE expiryOffset
            hi == IF submitOffset < expiryOffset THEN expiryOffset ELSE submitOffset
        IN  lo - 5 < 5 * offset /\ 5 * offset <= hi

(* how many operations of the given type a transaction holds *)
CountOps(tx, type) == Cardinality({i \in 1..Len(tx.ops) : tx.ops[i].type = type})

(* the ledger after the next ledger has taken setup *)
AfterSetup(b) == ApplyTx(led, out[b].setup, ledgerSeq + 1)

(* C18: the starting balance covers two base reserves for the escrow account,
   one for each signer and trust line setup adds to it, and the total fee (fee
   per operation times operations) of exercise and of refund, for every asset,
   fee and reserve; and on the ledger, once setup is carried out, what the
   escrow account holds above its minimum balance pays either of them *)
C18_BalanceSufficient ==
    \A b \in Builds : Built(b) =>
        LET subentries == CountOps(out[b].setup, "setOptionsSigner")
                          + CountOps(out[b].setup, "changeTrust")
            reserve == opt.baseReserve * (2 + subentries)
            after == AfterSetup(b)
            account == after.L.esc[build[b].escrow]
        IN  /\ subentries = (IF opt.underlying.asset = Native THEN 2 ELSE 3)
            /\ \A k \in Terminal :
                  /\ out[b][k].source = build[b].escrow
                  /\ StartingBalance(b) - reserve >= opt.fee * Len(out[b][k].ops)
            /\ after.st = "ok"
            /\ account.exists
            /\ Cardinality(account.signers) + (IF account.trust THEN 1 ELSE 0)
                  = subentries
            /\ \A k \in Terminal :
                  account.native - MinBalance(account) >= TotalFee(out[b][k])

(* a non-native underlying: exercise has four operations and its total fee is
   all the starting balance holds above the reserve *)
C18_Witness ==
    /\ Built(1)
    /\ opt.underlying.asset # Native
    /\ opt.baseReserve = BaseReserveStroops
    /\ Len(out[1].exercise.ops) = 4
    /\ AfterSetup(1).st = "ok"
    /\ LET account == AfterSetup(1).L.esc[build[1].escrow]
       IN  account.native - MinBalance(account) = TotalFee(out[1].exercise)

(* the hashes setup adds as signers, and the accounts it adds them to *)
PreAuthHashes(tx) ==
    {tx.ops[i].preAuthTx :
        i \in {j \in 1..Len(tx.ops) : tx.ops[j].type = "setOptionsSigner"}}

PreAuthAccounts(tx) ==
    {tx.ops[i].source :
        i \in {j \in 1..Len(tx.ops) : tx.ops[j].type = "setOptionsSigner"}}

(* C19: the hashes setup adds as signers are two, the hash of the returned
   exercise and the hash of the returned refund and no other, added to the
   escrow account; so that once setup is carried out each returned transaction,
   as returned and with no signature, is authorised on the escrow account *)
C19_HashesOfReturned ==
    \A b \in Builds : Built(b) =>
        /\ CountOps(out[b].setup, "setOptionsSigner") = 2
        /\ PreAuthHashes(out[b].setup)
              = {TxHash(out[b].exercise), TxHash(out[b].refund)}
        /\ TxHash(out[b].exercise) # TxHash(out[b].refund)
        /\ PreAuthAccounts(out[b].setup) = {build[b].escrow}
        /\ AfterSetup(b).st = "ok"
        /\ \A k \in Terminal :
              /\ out[b].signedBy[k] = {}
              /\ Authorised(AfterSetup(b).L, build[b].escrow, out[b][k], {})

(* both invocations have returned; on the ledger after the first one's setup
   the escrow account has the two hashes as its signers and no master weight,
   and neither hash is a hash of the other invocation's transactions *)
C19_Witness ==
    /\ Built(1) /\ Built(2)
    /\ LET account == AfterSetup(1).L.esc[build[1].escrow]
       IN  /\ account.exists
           /\ account.master = 0
           /\ account.signers = {TxHash(out[1].exercise), TxHash(out[1].refund)}
           /\ account.signers \cap PreAuthHashes(out[2].setup) = {}

(* what the transactions of one build that the ledger has carried out do to
   the balances: setup moves the underlying into the escrow account and the
   premium to the seller; exercise moves the strike to the seller and the
   underlying to the buyer; refund moves the underlying back to the seller *)
Effects(bal, b) ==
    LET e == build[b].escrow
        afterSetup ==
            IF Succeeded(b, "setup")
            THEN Move(Move(bal, Seller, e, opt.underlying.asset, opt.underlying.amount),
                      Buyer, Seller, opt.premium.asset, opt.premium.amount)
            ELSE bal
        afterExercise ==
            IF Succeeded(b, "exercise")
            THEN Move(Move(afterSetup, Buyer, Seller,
                           opt.exercise.asset, opt.exercise.amount),
                      e, Buyer, opt.underlying.asset, opt.underlying.amount)
            ELSE afterSetup
    IN  IF Succeeded(b, "refund")
        THEN Move(afterExercise, e, Seller,
                  opt.underlying.asset, opt.underlying.amount)
        ELSE afterExercise

ProtocolBalances(buyerFunded) ==
    Effects(Effects(InitialBalances(opt, buyerFunded), 1), 2)

(* the escrow account of build b holds the underlying *)
EscrowHolds(b) ==
    led.bal[build[b].escrow][opt.underlying.asset] = opt.underlying.amount

(* C20, the states: the balances are those the transactions carried out by the
   ledger give and no others, so the buyer has the underlying exactly when the
   seller has the strike; exercise and refund of one build are never both
   carried out; and the escrow account holds the underlying from setup until
   one of them is carried out, and nothing after *)
C20_Balances ==
    /\ \E buyerFunded \in BOOLEAN : led.bal = ProtocolBalances(buyerFunded)
    /\ \A b \in Builds :
          /\ ~(Succeeded(b, "exercise") /\ Succeeded(b, "refund"))
          /\ led.bal[build[b].escrow][opt.underlying.asset]
                \in {0, opt.underlying.amount}
          /\ EscrowHolds(b) <=>
                (Succeeded(b, "setup") /\ \A k \in Terminal : ~Succeeded(b, k))

(* C20, the steps: the step in which the ledger carries out exercise or refund
   removes the escrow account, and no other step takes the underlying out of
   the escrow account *)
C20_Steps ==
    \A b \in Builds :
        /\ \A k \in Terminal :
              (~Succeeded(b, k) /\ hist'[b][k].st = "ok") =>
                  /\ led.esc[build[b].escrow].exists
                  /\ ~led'.esc[build[b].escrow].exists
        /\ (EscrowHolds(b) /\ ~EscrowHolds(b)') =>
              \E k \in Terminal : ~Succeeded(b, k) /\ hist'[b][k].st = "ok"

(* C20: after setup the underlying leaves the escrow account to at most one
   party, the buyer holds it only if the seller has received the strike
   (payment and release together or not at all), and the escrow account is
   gone once exercise or refund has been carried out *)
C20_OneWayOut == [] C20_Balances /\ [][C20_Steps]_vars

(* exercise has been carried out: the buyer holds the underlying of a
   non-native option, the seller the strike, and the escrow account is gone *)
C20_Witness ==
    /\ Succeeded(1, "setup")
    /\ Succeeded(1, "exercise")
    /\ opt.underlying.asset # Native
    /\ led.bal[Buyer][opt.underlying.asset] = opt.underlying.amount
    /\ ~led.esc[build[1].escrow].exists

(* the ledger has taken the exercise of a buyer who does not hold the strike:
   nothing has moved, the escrow account still holds the underlying *)
C20_WitnessNothingMoved ==
    /\ Succeeded(1, "setup")
    /\ hist[1]["exercise"].st = "failed"
    /\ EscrowHolds(1)
    /\ led.bal[Buyer][NonNative] = 0

====
